---- MODULE Spec2Model ----
(***************************************************************************)
(* Model of the BriefBase SRA Finder (SRA-law-firm-lookup-tool/main.py):   *)
(* postcode normalisation and validation, the outward-code key, the        *)
(* upstream fetch with host fallback, and the filter over organisations.   *)
(*                                                                         *)
(* Strings are sequences of one-character strings, so that upper(),        *)
(* lower(), strip(), re.sub, slicing and the regular expression are        *)
(* computed character by character.  JSON values that may be absent or     *)
(* null are records [kind, val] with kind in absent/null/str/list/obj.     *)
(***************************************************************************)
EXTENDS Integers, Sequences, FiniteSets, TLC

VARIABLES
    SRA_HOSTS,    \* module-level host list (main.py 17-20)
    HEADERS,      \* module-level request headers, holding the API key (25-28)
    phase,        \* position of the request being served: idle / fetching / done
    route,        \* endpoint of the request being served
    pc_clean,     \* search_firms: normalised postcode (143)
    base_idx,     \* call_sra_json: position of the for loop over SRA_HOSTS (87)
    last_error,   \* call_sra_json: last_error (86, 99, 101, 103)
    attempts,     \* log of the requests.get calls of this call_sra_json (90)
    data,         \* search_firms: payload returned by call_sra_json (148)
    response,     \* what the endpoint answered
    prev_status,  \* history: status answered to the previous request (0: none yet)
    fn,           \* function harness: which helper is applied
    arg,          \* function harness: its argument
    ret           \* function harness: its result

vars == <<SRA_HOSTS, HEADERS, phase, route, pc_clean, base_idx, last_error,
          attempts, data, response, prev_status, fn, arg, ret>>

reqvars == <<phase, route, pc_clean, base_idx, last_error, attempts, data,
             response, prev_status>>

----------------------------------------------------------------------------
(* Characters *)

LowerAlpha == <<"a","b","c","d","e","f","g","h","i","j","k","l","m",
                "n","o","p","q","r","s","t","u","v","w","x","y","z">>

UpperAlpha == <<"A","B","C","D","E","F","G","H","I","J","K","L","M",
                "N","O","P","Q","R","S","T","U","V","W","X","Y","Z">>

Digits == {"0","1","2","3","4","5","6","7","8","9"}

\* What \s and str.strip() treat as whitespace (the ASCII part)
Whitespace == {" ", "\t", "\n", "\r", "\f"}

IsSpace(c) == c \in Whitespace

Letters == {LowerAlpha[i] : i \in DOMAIN LowerAlpha} \cup {UpperAlpha[i] : i \in DOMAIN UpperAlpha}

\* Position of each letter in the alphabet, whatever its case
LetterIndex ==
    [c \in Letters |-> CHOOSE i \in DOMAIN UpperAlpha : LowerAlpha[i] = c \/ UpperAlpha[i] = c]

\* str.upper() on one character
UpperChar(c) == IF c \in Letters THEN UpperAlpha[LetterIndex[c]] ELSE c

\* str.lower() on one character
LowerChar(c) == IF c \in Letters THEN LowerAlpha[LetterIndex[c]] ELSE c

Upper(s) == [i \in DOMAIN s |-> UpperChar(s[i])]

Lower(s) == [i \in DOMAIN s |-> LowerChar(s[i])]

\* str.strip(): drop leading and trailing whitespace
RECURSIVE LStrip(_)
LStrip(s) ==
    IF s # <<>> /\ IsSpace(Head(s)) THEN LStrip(Tail(s)) ELSE s

RECURSIVE RStrip(_)
RStrip(s) ==
    IF s # <<>> /\ IsSpace(s[Len(s)]) THEN RStrip(SubSeq(s, 1, Len(s) - 1)) ELSE s

Strip(s) == RStrip(LStrip(s))

\* re.sub(r"\s+", " ", s): every maximal run of whitespace becomes one space
RECURSIVE CollapseWS(_)
CollapseWS(s) ==
    IF s = <<>> THEN <<>>
    ELSE IF IsSpace(Head(s)) THEN <<" ">> \o CollapseWS(LStrip(Tail(s)))
    ELSE <<Head(s)>> \o CollapseWS(Tail(s))

\* w in s (substring test)
Contains(s, w) ==
    \E i \in 0..(Len(s) - Len(w)) : SubSeq(s, i + 1, i + Len(w)) = w

----------------------------------------------------------------------------
(* JSON values *)

Absent == [kind |-> "absent", val |-> <<>>]

Null == [kind |-> "null", val |-> <<>>]

Str(s) == [kind |-> "str", val |-> s]

List(l) == [kind |-> "list", val |-> l]

Obj(o) == [kind |-> "obj", val |-> o]

\* Python truthiness of a JSON value: None, "" , [] and a missing key are falsy
Truthy(v) ==
    CASE v.kind \in {"absent", "null"} -> FALSE
      [] v.kind \in {"str", "list"} -> v.val # <<>>
      [] OTHER -> TRUE

\* (v or "") and (v or []): the value's content, or the empty sequence
OrEmpty(v) == IF Truthy(v) THEN v.val ELSE <<>>

----------------------------------------------------------------------------
(* Postcode helpers *)

\* Position of a letter in the alphabet, ignoring case as re.IGNORECASE does
\* (0 if not a letter)
LetterIdx(c) == IF c \in Letters THEN LetterIndex[c] ELSE 0

IsDigit(c) == c \in Digits

\* [A-PR-UWYZ]
Area1Letters == (1..16) \cup (18..21) \cup {23, 25, 26}

IsArea1(c) == LetterIdx(c) \in Area1Letters

\* [A-HK-Y]
Area2Letters == (1..8) \cup (11..25)

IsArea2(c) == LetterIdx(c) \in Area2Letters

\* [A-HJKPSTUW]
Sub1Letters == (1..8) \cup {10, 11, 16, 19, 20, 21, 23}

IsSub1(c) == LetterIdx(c) \in Sub1Letters

\* [ABEHMNPRVWXY]
Sub2Letters == {1, 2, 5, 8, 13, 14, 16, 18, 22, 23, 24, 25}

IsSub2(c) == LetterIdx(c) \in Sub2Letters

\* [ABD-HJLNP-UW-Z]
UnitLetters == {1, 2, 10, 12, 14} \cup (4..8) \cup (16..21) \cup (23..26)

IsUnitLetter(c) == LetterIdx(c) \in UnitLetters

\* The four alternatives of the outward part (main.py 47-50)
IsOutwardPart(o) ==
    \/ /\ Len(o) \in {2, 3}
       /\ IsArea1(o[1]) /\ IsDigit(o[2])
       /\ Len(o) = 3 => IsDigit(o[3])
    \/ /\ Len(o) \in {3, 4}
       /\ IsArea1(o[1]) /\ IsArea2(o[2]) /\ IsDigit(o[3])
       /\ Len(o) = 4 => IsDigit(o[4])
    \/ /\ Len(o) \in {2, 3}
       /\ IsArea1(o[1]) /\ IsDigit(o[2])
       /\ Len(o) = 3 => IsSub1(o[3])
    \/ /\ Len(o) \in {3, 4}
       /\ IsArea1(o[1]) /\ IsArea2(o[2]) /\ IsDigit(o[3])
       /\ Len(o) = 4 => IsSub2(o[4])

\* [0-9][ABD-HJLNP-UW-Z]{2} (main.py 51)
IsInwardUnit(u) ==
    /\ Len(u) = 3
    /\ IsDigit(u[1]) /\ IsUnitLetter(u[2]) /\ IsUnitLetter(u[3])

\* Variant with \s in place of \s?: the space before the unit is mandatory
IsSpaceThenUnit(t) ==
    /\ Len(t) = 4
    /\ IsSpace(t[1])
    /\ IsInwardUnit(Tail(t))

\* \s? followed by the inward unit (main.py 51)
IsOptSpaceUnit(t) ==
    \/ IsInwardUnit(t)
    \/ /\ Len(t) = 4
       /\ IsSpace(t[1])
       /\ IsInwardUnit(Tail(t))

\* GIR\s?0AA, case-insensitive (main.py 46)
IsGirobank(b) ==
    \/ Upper(b) = <<"G","I","R","0","A","A">>
    \/ /\ Len(b) = 7
       /\ IsSpace(b[4])
       /\ Upper(SubSeq(b, 1, 3) \o SubSeq(b, 5, 7)) = <<"G","I","R","0","A","A">>

\* The capturing group of UK_PC_RE (main.py 46-51)
IsPostcodeBody(b) ==
    \/ IsGirobank(b)
    \/ \E k \in 1..Len(b) :
          /\ IsOutwardPart(SubSeq(b, 1, k))
          /\ IsOptSpaceUnit(SubSeq(b, k + 1, Len(b)))

\* UK_PC_RE.match(s): ^\s* body \s*$ under IGNORECASE | VERBOSE
UK_PC_RE(s) ==
    \E i \in 0..Len(s), j \in 0..Len(s) :
        /\ i <= j
        /\ \A k \in 1..i : IsSpace(s[k])
        /\ \A k \in (j + 1)..Len(s) : IsSpace(s[k])
        /\ IsPostcodeBody(SubSeq(s, i + 1, j))

\* normalise_postcode(pc), pc a str: (pc or "") is pc itself
normalise_postcode(pc) == Strip(CollapseWS(Upper(pc)))

\* pc.split(" ", 1)[0]: the part before the first space
RECURSIVE BeforeFirstSpace(_)
BeforeFirstSpace(s) ==
    IF s = <<>> \/ Head(s) = " " THEN <<>>
    ELSE <<Head(s)>> \o BeforeFirstSpace(Tail(s))

HasSpace(s) == \E i \in DOMAIN s : s[i] = " "

\* Variant without the all-but-last-three fallback of line 66
outward_code_no_fallback(pc) ==
    LET p == normalise_postcode(pc) IN
    IF HasSpace(p) THEN BeforeFirstSpace(p) ELSE p

\* outward_code(pc) (main.py 62-66)
outward_code(pc) ==
    LET p == normalise_postcode(pc) IN
    IF HasSpace(p) THEN BeforeFirstSpace(p)
    ELSE IF Len(p) > 3 THEN SubSeq(p, 1, Len(p) - 3)
    ELSE p

----------------------------------------------------------------------------
(* Organisation filter *)

\* "authorised", "registered", "authorised body", "recognised body" (main.py 71)
ActiveWords ==
    { <<"a","u","t","h","o","r","i","s","e","d">>,
      <<"r","e","g","i","s","t","e","r","e","d">>,
      <<"a","u","t","h","o","r","i","s","e","d"," ","b","o","d","y">>,
      <<"r","e","c","o","g","n","i","s","e","d"," ","b","o","d","y">> }

\* Variant without lower()
looks_active_case_sensitive(org) ==
    LET status == Strip(OrEmpty(org.AuthorisationStatus)) IN
    \E w \in ActiveWords : Contains(status, w)

\* looks_active(org) (main.py 68-72)
looks_active(org) ==
    LET status == Lower(Strip(OrEmpty(org.AuthorisationStatus))) IN
    \E w \in ActiveWords : Contains(status, w)

\* office.get("Address", {}) or {}: the address object, or the empty one
EmptyAddress == [PostCode |-> Absent]

AddressOf(office) ==
    IF office.Address.kind = "obj" THEN office.Address.val ELSE EmptyAddress

\* Variant whose guard for a missing postcode returns True
office_matches_missing_postcode(office, target_pc) ==
    LET pc == OrEmpty(AddressOf(office).PostCode) IN
    IF pc = <<>> THEN TRUE
    ELSE outward_code(pc) = outward_code(target_pc)

\* office_matches_postcode(office, target_pc) (main.py 74-79)
office_matches_postcode(office, target_pc) ==
    LET pc == OrEmpty(AddressOf(office).PostCode) IN
    IF pc = <<>> THEN FALSE
    ELSE outward_code(pc) = outward_code(target_pc)

\* The record appended for an organisation and its matched office (159-168);
\* Name, Email, Phone, Address1 and Town are copied through in the same way
\* and are left out.
Project(org, office) ==
    [OrganisationID      |-> org.OrganisationID,
     Postcode            |-> AddressOf(office).PostCode,
     AuthorisationStatus |-> org.AuthorisationStatus]

\* Variant of the inner loop without its break: one record per matching office
OfficeRecordsNoBreak(org, target_pc) ==
    LET offices == OrEmpty(org.Offices)
        Hit(office) == office_matches_postcode(office, target_pc)
        Rec(office) == Project(org, office)
        hits == SelectSeq(offices, Hit)
    IN  [i \in DOMAIN hits |-> Rec(hits[i])]

\* Inner loop over org.get("Offices", []) or [] with its break (155-170):
\* the records one organisation contributes
OfficeRecords(org, target_pc) ==
    LET offices == OrEmpty(org.Offices)
        hits == {i \in DOMAIN offices : office_matches_postcode(offices[i], target_pc)}
    IN  IF hits = {} THEN <<>>
        ELSE LET first == CHOOSE i \in hits : \A j \in hits : i <= j
             IN  <<Project(org, offices[first])>>

\* Outer loop over data.get("value", []) or [] (151-170)
RECURSIVE FilterOrgs(_, _)
FilterOrgs(orgs, target_pc) ==
    IF orgs = <<>> THEN <<>>
    ELSE (IF looks_active(Head(orgs)) THEN OfficeRecords(Head(orgs), target_pc) ELSE <<>>)
         \o FilterOrgs(Tail(orgs), target_pc)

\* The body search_firms returns for a fetched payload (150-171)
SearchBody(payload, target_pc) ==
    LET results == FilterOrgs(OrEmpty(payload.value), target_pc) IN
    [status |-> 200, kind |-> "search", count |-> Len(results), results |-> results]

----------------------------------------------------------------------------
(* Configuration (main.py 14-28) *)

SRA_API_KEY == "subscription-key"

ConfiguredHosts ==
    << "https://sra-prod-api.microsites.uk/datashare/api/v1",
       "https://sra-prod-api.azure-api.net/datashare/api/v1" >>

ConfiguredHeaders ==
    [SubscriptionKey |-> SRA_API_KEY, CacheControl |-> "no-cache"]

----------------------------------------------------------------------------
(* Inputs: postcodes typed by callers, and what the upstream hosts answer *)

\* Longest organisation list an upstream payload carries
MaxOrgs == 2

PostcodeInputs ==
    { <<"S","W","1","A"," ","1","A","A">>,
      <<"S","W","1","A","1","A","A">>,
      <<" ","s","w","1","a"," "," ","1","a","a"," ">>,
      <<"s","w","1","a","\t","1","a","a">>,
      <<"s","w","1","a","1","a","a">>,
      <<"M","1"," ","1","A","E">>,
      <<"m","1","1","a","e">>,
      <<"G","I","R"," ","0","A","A">>,
      <<"S","W","1","A"," ","1","A","C">>,
      <<"S","W","1","A"," ","1"," ","A","A">>,
      <<"S","W","1","A","-","1","A","A">>,
      <<"1","2","3","4","5">>,
      <<"A","B","C","D","E","F">>,
      <<"1","A","A">>,
      <<" "," ">>,
      <<>> }

OfficeAt(pc) == [Address |-> Obj([PostCode |-> pc])]

PC_SW1A_2AA == Str(<<"S","W","1","A"," ","2","A","A">>)

PC_SW1A_9ZZ == Str(<<"S","W","1","A"," ","9","Z","Z">>)

PC_sw1a2bb == Str(<<"s","w","1","a","2","b","b">>)

PC_M1_1AE == Str(<<"M","1"," ","1","A","E">>)

Org(id, status, offices) ==
    [OrganisationID |-> id, AuthorisationStatus |-> status, Offices |-> offices]

\* Organisations the upstream payloads are built from
Organisations ==
    { Org(1, Str(<<"A","u","t","h","o","r","i","s","e","d">>),
             List(<<OfficeAt(PC_SW1A_2AA)>>)),
      Org(2, Str(<<" "," ","r","e","g","i","s","t","e","r","e","d"," "," ">>),
             List(<<OfficeAt(PC_sw1a2bb)>>)),
      Org(3, Str(<<"R","e","c","o","g","n","i","s","e","d"," ","B","o","d","y">>),
             List(<<OfficeAt(PC_M1_1AE), OfficeAt(PC_SW1A_2AA)>>)),
      Org(4, Str(<<"R","e","v","o","k","e","d">>),
             List(<<OfficeAt(PC_SW1A_2AA), OfficeAt(PC_M1_1AE)>>)),
      Org(5, Str(<<>>), List(<<OfficeAt(PC_SW1A_2AA)>>)),
      Org(6, Null, List(<<OfficeAt(PC_SW1A_2AA)>>)),
      Org(7, Str(<<"A","U","T","H","O","R","I","S","E","D"," ","B","O","D","Y">>),
             List(<<OfficeAt(PC_SW1A_2AA), OfficeAt(PC_SW1A_9ZZ)>>)),
      Org(8, Str(<<"A","u","t","h","o","r","i","s","e","d">>), Absent),
      Org(9, Str(<<"A","u","t","h","o","r","i","s","e","d">>), List(<<>>)),
      Org(10, Str(<<"A","u","t","h","o","r","i","s","e","d">>),
             List(<<[Address |-> Absent], [Address |-> Null],
                    OfficeAt(Str(<<>>)), OfficeAt(Absent)>>)),
      Org(11, Str(<<"r","e","g","i","s","t","e","r","e","d">>),
             List(<<OfficeAt(Null), OfficeAt(PC_M1_1AE)>>)),
      Org(12, Absent, Null) }

OrgLists == UNION { [1..n -> Organisations] : n \in 0..MaxOrgs }

\* JSON bodies of the Organisations resource: {"value": [...]}, {"value": null}, {}
Payloads ==
    { [value |-> List(l)] : l \in OrgLists } \cup { [value |-> Null], [value |-> Absent] }

\* Status codes a host may answer with
StatusCodes == {200, 401, 503}

NoPayload == [value |-> Absent]

\* What one requests.get can come to: an exception, or a response with a status
\* code, whose body parses as JSON or does not
Exchanges ==
    { [raised |-> e, status_code |-> 0, json_ok |-> FALSE, body |-> NoPayload] :
          e \in {"SSLError", "ConnectionError"} }
    \cup { [raised |-> "", status_code |-> c, json_ok |-> FALSE, body |-> NoPayload] :
          c \in StatusCodes }
    \cup { [raised |-> "", status_code |-> 200, json_ok |-> TRUE, body |-> b] :
          b \in Payloads }

----------------------------------------------------------------------------
(* State *)

NoError == [category |-> "None", host |-> ""]

NoData == [kind |-> "unset", val |-> NoPayload]

NoResponse == [status |-> 0, kind |-> "none"]

ErrorResponse(code, category, host) ==
    [status |-> code, kind |-> "error",
     detail |-> [category |-> category, host |-> host]]

Init ==
    /\ SRA_HOSTS = ConfiguredHosts
    /\ HEADERS = ConfiguredHeaders
    /\ phase = "idle"
    /\ route = ""
    /\ pc_clean = <<>>
    /\ base_idx = 0
    /\ last_error = NoError
    /\ attempts = <<>>
    /\ data = NoData
    /\ response = NoResponse
    /\ prev_status = 0
    /\ fn = "none"
    /\ arg = <<>>
    /\ ret = <<>>

\* Variant that remembers the host that answered by moving it to the front
PreferHostThatWorked ==
    /\ HEADERS' = HEADERS
    /\ SRA_HOSTS' =
          IF /\ phase = "fetching" /\ phase' = "done" /\ base_idx > 1
             /\ attempts'[Len(attempts')].outcome = "return"
          THEN <<SRA_HOSTS[base_idx]>>
               \o SelectSeq(SRA_HOSTS, LAMBDA h : h # SRA_HOSTS[base_idx])
          ELSE SRA_HOSTS

\* No handler assigns the module-level configuration (main.py 14-28)
KeepConfig == UNCHANGED <<SRA_HOSTS, HEADERS>>

----------------------------------------------------------------------------
(* GET /search *)

\* Variant without the validation of lines 144-145
RejectsNothing(pc) == FALSE

\* if not UK_PC_RE.match(pc_clean): raise HTTPException(422) (main.py 144-145)
RejectsPostcode(pc) == ~UK_PC_RE(pc)

\* search_firms up to the call of call_sra_json (main.py 140-148)
search_firms ==
    /\ phase = "idle"
    /\ \E postcode \in PostcodeInputs :
          LET pc == normalise_postcode(postcode) IN
          /\ pc_clean' = pc
          /\ IF RejectsPostcode(pc)
             THEN /\ response' = ErrorResponse(422, "invalid postcode", "")
                  /\ phase' = "done"
                  /\ base_idx' = 0
             ELSE /\ response' = NoResponse
                  /\ phase' = "fetching"
                  /\ base_idx' = 1
    /\ route' = "/search"
    /\ last_error' = NoError
    /\ attempts' = <<>>
    /\ data' = NoData
    /\ UNCHANGED <<prev_status, fn, arg, ret>>
    /\ KeepConfig

\* How the try block of call_sra_json ends for one exchange (main.py 89-103).
\* A 2xx body that does not parse makes resp.json() raise: a RequestException
\* where requests defines JSONDecodeError, a plain ValueError (not caught by
\* any except clause) where it does not.
TryOutcomes(x) ==
    CASE x.raised = "SSLError" -> {"SSLError"}
      [] x.raised # "" -> {"Network error"}
      [] x.status_code >= 400 -> {"HTTPError"}
      [] x.json_ok -> {"return"}
      [] OTHER -> {"Network error", "uncaught"}

\* Variant that keeps the first failure instead of the most recent one
KeepFirstError(previous, category, base) ==
    IF previous.category = "None" THEN [category |-> category, host |-> base]
    ELSE previous

\* last_error = f"... on {base}: ..." (main.py 99, 101, 103); the message or
\* body snippet after the colon is left out
RecordError(previous, category, base) == [category |-> category, host |-> base]

\* Variant that reports 502 when an earlier host has failed
AnswerUnlessErrorSeen(body, target_pc, error_so_far) ==
    IF error_so_far.category = "None" THEN SearchBody(body, target_pc)
    ELSE [status |-> 502, kind |-> "error",
          detail |-> [category |-> error_so_far.category, host |-> error_so_far.host]]

\* What search_firms answers once call_sra_json has returned a body (148-171)
Answer(body, target_pc, error_so_far) == SearchBody(body, target_pc)

\* Variant that walks the host list from its end
BaseAtReversed(hosts, i) == hosts[Len(hosts) + 1 - i]

\* for base in SRA_HOSTS: the host of the i-th pass (main.py 87)
BaseAt(hosts, i) == hosts[i]

\* One pass of the for loop of call_sra_json, and on its return or raise the
\* rest of search_firms (main.py 87-105, 148-171)
call_sra_json ==
    /\ phase = "fetching"
    /\ base_idx \in 1..Len(SRA_HOSTS)
    /\ \E x \in Exchanges : \E o \in TryOutcomes(x) :
          LET base == BaseAt(SRA_HOSTS, base_idx) IN
          /\ attempts' = Append(attempts, [host |-> base, outcome |-> o, body |-> x.body])
          /\ CASE o = "return" ->
                    /\ data' = Obj(x.body)
                    /\ response' = Answer(x.body, pc_clean, last_error)
                    /\ phase' = "done"
                    /\ UNCHANGED <<base_idx, last_error>>
               [] o = "uncaught" ->
                    /\ response' = ErrorResponse(500, "Internal Server Error", "")
                    /\ phase' = "done"
                    /\ UNCHANGED <<base_idx, last_error, data>>
               [] OTHER ->
                    /\ last_error' = RecordError(last_error, o, base)
                    /\ base_idx' = base_idx + 1
                    /\ IF base_idx + 1 > Len(SRA_HOSTS)
                       THEN /\ response' = ErrorResponse(502, last_error'.category,
                                                         last_error'.host)
                            /\ phase' = "done"
                       ELSE UNCHANGED <<response, phase>>
                    /\ UNCHANGED data
    /\ UNCHANGED <<route, pc_clean, prev_status, fn, arg, ret>>
    /\ KeepConfig

----------------------------------------------------------------------------
(* The other endpoints *)

\* root() (main.py 108-110)
root ==
    /\ phase = "idle"
    /\ route' = "/"
    /\ response' = [status |-> 200, kind |-> "root", ok |-> TRUE]
    /\ phase' = "done"
    /\ UNCHANGED <<pc_clean, base_idx, last_error, attempts, data, prev_status,
                   fn, arg, ret>>
    /\ KeepConfig

\* health() (main.py 112-114)
health ==
    /\ phase = "idle"
    /\ route' = "/health"
    /\ response' = [status |-> 200, kind |-> "health", body |-> "ok"]
    /\ phase' = "done"
    /\ UNCHANGED <<pc_clean, base_idx, last_error, attempts, data, prev_status,
                   fn, arg, ret>>
    /\ KeepConfig

\* One entry of the probe report (main.py 125-132)
ProbeEntry(base, x) ==
    IF x.raised # ""
    THEN [host |-> base, ok |-> FALSE, status |-> 0, error |-> x.raised]
    ELSE [host |-> base, ok |-> x.status_code < 400, status |-> x.status_code,
          error |-> ""]

\* probe() (main.py 116-133)
probe ==
    /\ phase = "idle"
    /\ \E xs \in [DOMAIN SRA_HOSTS -> {x \in Exchanges : x.body = NoPayload}] :
          response' = [status |-> 200, kind |-> "probe",
                       probe |-> [i \in DOMAIN SRA_HOSTS |-> ProbeEntry(SRA_HOSTS[i], xs[i])]]
    /\ route' = "/probe"
    /\ phase' = "done"
    /\ UNCHANGED <<pc_clean, base_idx, last_error, attempts, data, prev_status,
                   fn, arg, ret>>
    /\ KeepConfig

\* The handler has returned: its locals are gone and the next request can come
Return ==
    /\ phase = "done"
    /\ prev_status' = response.status
    /\ phase' = "idle"
    /\ route' = ""
    /\ pc_clean' = <<>>
    /\ base_idx' = 0
    /\ last_error' = NoError
    /\ attempts' = <<>>
    /\ data' = NoData
    /\ response' = NoResponse
    /\ UNCHANGED <<fn, arg, ret>>
    /\ KeepConfig

Next ==
    \/ search_firms
    \/ call_sra_json
    \/ root
    \/ health
    \/ probe
    \/ Return

Spec == Init /\ [][Next]_vars

----------------------------------------------------------------------------
(* outward_code applied to arbitrary short strings *)

\* Longest string handed to outward_code
MaxStrLen == 6

HarnessChars == {"a", "B", "1", " ", "\t"}

OutwardInputs == UNION { [1..n -> HarnessChars] : n \in 0..MaxStrLen }

InitOutward ==
    /\ SRA_HOSTS = ConfiguredHosts
    /\ HEADERS = ConfiguredHeaders
    /\ phase = "idle"
    /\ route = ""
    /\ pc_clean = <<>>
    /\ base_idx = 0
    /\ last_error = NoError
    /\ attempts = <<>>
    /\ data = NoData
    /\ response = NoResponse
    /\ prev_status = 0
    /\ fn = "call"
    /\ arg \in OutwardInputs
    /\ ret = <<>>

apply_outward_code ==
    /\ fn = "call"
    /\ ret' = outward_code(arg)
    /\ fn' = "returned"
    /\ UNCHANGED <<arg, reqvars>>
    /\ KeepConfig

SpecOutward == InitOutward /\ [][apply_outward_code]_vars

----------------------------------------------------------------------------
(* Properties *)

HostCount == Len(ConfiguredHosts)

FailureCategories == {"HTTPError", "SSLError", "Network error"}

SearchAnswered == phase = "done" /\ route = "/search"

\* Organisations of the fetched payload, once call_sra_json has returned
FetchedOrgs == OrEmpty(data.val.value)

\* C1: in one call of call_sra_json the hosts are attempted in the configured
\* order, none twice, at most one attempt per configured host, and the first
\* host that answers with a parseable body ends the call: its body is what
\* call_sra_json returns and no later host is attempted.
C1_HostsTriedInOrderUntilSuccess ==
    /\ Len(attempts) <= HostCount
    /\ \A i \in DOMAIN attempts : attempts[i].host = ConfiguredHosts[i]
    /\ \A i, j \in DOMAIN attempts : i # j => attempts[i].host # attempts[j].host
    /\ \A i \in DOMAIN attempts :
          attempts[i].outcome = "return"
             => /\ i = Len(attempts)
                /\ phase = "done"
                /\ data.kind = "obj"
                /\ data.val = attempts[i].body

C1_Witness ==
    /\ phase = "done"
    /\ Len(attempts) = HostCount
    /\ attempts[1].outcome = "Network error"
    /\ attempts[HostCount].outcome = "return"
    /\ attempts[HostCount].host = ConfiguredHosts[HostCount]

\* C2: when every configured host fails (HTTP status, TLS or network), the
\* search ends in 502 with no payload, and the detail names the host and the
\* failure category of the last host attempted.
C2_AllHostsFailGives502 ==
    (/\ SearchAnswered
     /\ Len(attempts) = HostCount
     /\ \A i \in DOMAIN attempts : attempts[i].outcome \in FailureCategories)
    => /\ response.status = 502
       /\ response.kind = "error"
       /\ response.detail.host = ConfiguredHosts[HostCount]
       /\ response.detail.category = attempts[HostCount].outcome
       /\ data = NoData

C2_Witness ==
    /\ SearchAnswered
    /\ response.status = 502
    /\ Len(attempts) = HostCount
    /\ attempts[1].outcome = "HTTPError"
    /\ attempts[HostCount].outcome = "SSLError"
    /\ response.detail.category = "SSLError"

\* C3: a postcode that fails validation ends the search in 422 before any
\* upstream attempt is made.
C3_InvalidPostcodeNoAttempt ==
    (route = "/search" /\ ~UK_PC_RE(pc_clean))
    => /\ phase = "done"
       /\ response.status = 422
       /\ attempts = <<>>
       /\ data = NoData

C3_Witness ==
    /\ SearchAnswered
    /\ pc_clean = <<"S","W","1","A"," ","1","A","C">>
    /\ response.status = 422
    /\ attempts = <<>>

\* An organisation qualifies for a target postcode when it is active and one
\* of its offices carries a postcode with the target's outward code
C4_Qualifies(org, target_pc) ==
    /\ looks_active(org)
    /\ \E i \in DOMAIN OrEmpty(org.Offices) :
          LET pc == AddressOf(OrEmpty(org.Offices)[i]).PostCode IN
          /\ Truthy(pc)
          /\ outward_code(pc.val) = outward_code(target_pc)

C4_Ids(recs) == [i \in DOMAIN recs |-> recs[i].OrganisationID]

\* C4: the results hold exactly one record per qualifying organisation of the
\* fetched list, none for any other, in the order of the list, and count is
\* the number of records.
C4_OneRecordPerQualifyingOrg ==
    (SearchAnswered /\ data.kind = "obj")
    => LET Q(org) == C4_Qualifies(org, pc_clean) IN
       /\ response.kind = "search"
       /\ C4_Ids(response.results) = C4_Ids(SelectSeq(FetchedOrgs, Q))
       /\ response.count = Len(response.results)

C4_Witness ==
    /\ SearchAnswered
    /\ data.kind = "obj"
    /\ pc_clean = <<"S","W","1","A","1","A","A">>
    /\ C4_Ids(FetchedOrgs) = <<7, 4>>
    /\ response.count = 1

\* C5: when an earlier host has failed and a later host succeeds, the search
\* answers 200 with the results computed from the later host's body.
C5_LaterSuccessIsNot502 ==
    (/\ SearchAnswered
     /\ Len(attempts) > 1
     /\ attempts[Len(attempts)].outcome = "return")
    => /\ response.status = 200
       /\ response.kind = "search"
       /\ response.results =
             FilterOrgs(OrEmpty(attempts[Len(attempts)].body.value), pc_clean)

C5_Witness ==
    /\ SearchAnswered
    /\ Len(attempts) = HostCount
    /\ attempts[1].outcome = "SSLError"
    /\ attempts[HostCount].outcome = "return"
    /\ response.status = 200
    /\ response.count = 2

\* C6 as stated: a normalised postcode without an internal space fails
\* validation, so the search answers 422.
C6_SpaceRequired ==
    (SearchAnswered /\ ~HasSpace(pc_clean)) => response.status = 422

\* The spelling of an unspaced postcode with a space before its last three
\* characters
C6_Spaced(pc) ==
    SubSeq(pc, 1, Len(pc) - 3) \o <<" ">> \o SubSeq(pc, Len(pc) - 2, Len(pc))

\* C6: the space is optional: a normalised postcode without an internal
\* space is rejected with 422 exactly when its spaced spelling does not match
\* the grammar either.
C6_SpaceOptional ==
    (SearchAnswered /\ ~HasSpace(pc_clean) /\ Len(pc_clean) > 3)
    => (response.status = 422 <=> ~UK_PC_RE(C6_Spaced(pc_clean)))

C6_Witness ==
    /\ SearchAnswered
    /\ pc_clean = <<"S","W","1","A","1","A","A">>
    /\ response.status = 200

NoWhitespace(s) == \A i \in DOMAIN s : ~IsSpace(s[i])

AllWhitespace(s) == \A i \in DOMAIN s : IsSpace(s[i])

\* outward_code gives the uppercased outward part for every spelling of a
\* postcode: whitespace, a non-empty outward part, any whitespace, three
\* inward characters, whitespace
C7_SameKeyForSpacedAndUnspaced ==
    fn = "returned"
    => \A i \in 0..Len(arg), j \in 0..Len(arg), k \in 0..Len(arg) :
          (/\ i < j /\ j <= k /\ k + 3 <= Len(arg)
           /\ AllWhitespace(SubSeq(arg, 1, i))
           /\ NoWhitespace(SubSeq(arg, i + 1, j))
           /\ AllWhitespace(SubSeq(arg, j + 1, k))
           /\ NoWhitespace(SubSeq(arg, k + 1, k + 3))
           /\ AllWhitespace(SubSeq(arg, k + 4, Len(arg))))
          => ret = Upper(SubSeq(arg, i + 1, j))

\* C7 as stated: the same key for every spelling, and a string of at most
\* three characters without a space comes back unchanged.
C7_ShortStringUnchanged ==
    /\ C7_SameKeyForSpacedAndUnspaced
    /\ (fn = "returned" /\ Len(arg) <= 3 /\ ~HasSpace(arg)) => ret = arg

\* C7: the same key for every spelling, and a string of at most three
\* characters without whitespace comes back uppercased (not unchanged).
C7_ShortStringUppercased ==
    /\ C7_SameKeyForSpacedAndUnspaced
    /\ (fn = "returned" /\ Len(arg) <= 3 /\ NoWhitespace(arg)) => ret = Upper(arg)

C7_Witness ==
    /\ fn = "returned"
    /\ arg = <<"a","1","1","a","B">>
    /\ ret = <<"A","1">>

\* An organisation none of whose offices carries a postcode: the office list
\* is missing or empty, or every office lacks the address or the postcode
C8_NoUsableOffice(org) ==
    \A i \in DOMAIN OrEmpty(org.Offices) :
       LET office == OrEmpty(org.Offices)[i] IN
       \/ office.Address.kind \in {"absent", "null"}
       \/ office.Address.val.PostCode.kind \in {"absent", "null"}
       \/ office.Address.val.PostCode.val = <<>>

\* C8: a fetched list holding organisations with missing offices, addresses
\* or postcodes is answered normally, such organisations contribute no
\* record, and every record carries the postcode of an office that has one.
C8_MalformedDataExcluded ==
    (SearchAnswered /\ data.kind = "obj")
    => /\ response.status = 200
       /\ \A i \in DOMAIN FetchedOrgs :
             C8_NoUsableOffice(FetchedOrgs[i])
                => \A r \in DOMAIN response.results :
                      response.results[r].OrganisationID # FetchedOrgs[i].OrganisationID
       /\ \A r \in DOMAIN response.results :
             /\ response.results[r].Postcode.kind = "str"
             /\ response.results[r].Postcode.val # <<>>

C8_Witness ==
    /\ SearchAnswered
    /\ data.kind = "obj"
    /\ C4_Ids(FetchedOrgs) = <<10, 11>>
    /\ pc_clean = <<"M","1"," ","1","A","E">>
    /\ C4_Ids(response.results) = <<11>>

\* The status text of an organisation, trimmed and lowercased ("" when the
\* field is null, empty or absent)
C9_Status(org) ==
    IF org.AuthorisationStatus.kind = "str"
    THEN Lower(Strip(org.AuthorisationStatus.val))
    ELSE <<>>

C9_HasKeyword(org) ==
    \/ Contains(C9_Status(org), <<"a","u","t","h","o","r","i","s","e","d">>)
    \/ Contains(C9_Status(org), <<"r","e","g","i","s","t","e","r","e","d">>)
    \/ Contains(C9_Status(org), <<"a","u","t","h","o","r","i","s","e","d"," ","b","o","d","y">>)
    \/ Contains(C9_Status(org), <<"r","e","c","o","g","n","i","s","e","d"," ","b","o","d","y">>)

C9_HasOfficeAt(org, target_pc) ==
    \E i \in DOMAIN OrEmpty(org.Offices) :
       office_matches_postcode(OrEmpty(org.Offices)[i], target_pc)

C9_Listed(org) ==
    \E r \in DOMAIN response.results :
       response.results[r].OrganisationID = org.OrganisationID

\* C9: an organisation with a matching office is listed exactly when its
\* trimmed, lowercased status contains one of the four keywords: listed for
\* "Authorised", "  registered  " and "Recognised Body", never listed for
\* "Revoked", "" or a null or absent status.
C9_ActiveIffKeyword ==
    (SearchAnswered /\ data.kind = "obj")
    => \A i \in DOMAIN FetchedOrgs :
          LET org == FetchedOrgs[i] IN
          /\ C9_Listed(org) <=> (C9_HasKeyword(org) /\ C9_HasOfficeAt(org, pc_clean))
          /\ (org.OrganisationID \in {1, 2, 3} /\ C9_HasOfficeAt(org, pc_clean))
                => C9_Listed(org)
          /\ org.OrganisationID \in {4, 5, 6, 12} => ~C9_Listed(org)

C9_Witness ==
    /\ SearchAnswered
    /\ data.kind = "obj"
    /\ pc_clean = <<"S","W","1","A"," ","1","A","A">>
    /\ C4_Ids(FetchedOrgs) = <<4, 2>>
    /\ C4_Ids(response.results) = <<2>>

\* C10: no search changes the host list or the headers, nothing of a call
\* outlives it, and every search that passes validation starts at the first
\* configured host and fetches again, whatever the previous call answered.
C10_SearchesAreStateless ==
    /\ SRA_HOSTS = ConfiguredHosts
    /\ HEADERS = ConfiguredHeaders
    /\ phase = "idle"
          => /\ attempts = <<>> /\ last_error = NoError
             /\ data = NoData /\ base_idx = 0
    /\ (phase = "fetching" /\ attempts = <<>>)
          => /\ base_idx = 1 /\ last_error = NoError /\ data = NoData
    /\ attempts # <<>> => attempts[1].host = ConfiguredHosts[1]
    /\ (SearchAnswered /\ response.status \in {200, 502}) => attempts # <<>>

C10_Witness ==
    /\ prev_status = 502
    /\ SearchAnswered
    /\ response.status = 200
    /\ Len(attempts) = HostCount
    /\ attempts[1].host = ConfiguredHosts[1]

====
